---- MODULE Spec2Model ----
(***************************************************************************)
(* marked-plaintify: the plain-text renderer built by markedPlaintify      *)
(* (packages/plaintify/src/index.ts).                                      *)
(*                                                                         *)
(* A text is a sequence of one-character strings, so that split, trim and  *)
(* escapeHTML are computed character by character as JavaScript does.      *)
(* A token is a record with the fields marked's lexer gives it; a field    *)
(* that is undefined in JavaScript is absent from the record.              *)
(***************************************************************************)
EXTENDS Integers, Sequences, FiniteSets, TLC

VARIABLES pc, options, renderer, currentTableHeader, tree, before, first,
          second, trace

vars == <<pc, options, renderer, currentTableHeader, tree, before, first,
          second, trace>>

\* Bounds of the enumerated inputs.
MaxCols == 2
MaxRows == 1
MaxItems == 2
MaxInline == 2

-----------------------------------------------------------------------------
(* Texts *)

NL == <<"\n">>
NLNL == <<"\n", "\n">>
ColonSpace == <<":", " ">>
Undefined == <<"u", "n", "d", "e", "f", "i", "n", "e", "d">>
CELL_PAD == <<"_", "_", "C", "E", "L", "L", "_", "P", "A", "D", "_", "_">>

WhiteSpace == {" ", "\n", "\t"}

RECURSIVE Flatten(_)
Flatten(ss) == IF ss = <<>> THEN <<>> ELSE Head(ss) \o Flatten(Tail(ss))

\* Array.prototype.join
RECURSIVE Join(_, _)
Join(ss, sep) ==
  IF ss = <<>> THEN <<>>
  ELSE IF Len(ss) = 1 THEN ss[1]
  ELSE ss[1] \o sep \o Join(Tail(ss), sep)

\* String.prototype.trim
RECURSIVE TrimStart(_)
TrimStart(s) ==
  IF s # <<>> /\ Head(s) \in WhiteSpace THEN TrimStart(Tail(s)) ELSE s

RECURSIVE TrimEnd(_)
TrimEnd(s) ==
  IF s # <<>> /\ s[Len(s)] \in WhiteSpace
  THEN TrimEnd(SubSeq(s, 1, Len(s) - 1))
  ELSE s

Trim(s) == TrimEnd(TrimStart(s))

MatchAt(s, d, i) ==
  /\ i + Len(d) - 1 <= Len(s)
  /\ s[i] = d[1]
  /\ SubSeq(s, i, i + Len(d) - 1) = d

\* String.prototype.split with a non-empty string separator: the matches are
\* found left to right and do not overlap.
RECURSIVE SplitFrom(_, _, _, _)
SplitFrom(s, d, i, start) ==
  IF i > Len(s) THEN <<SubSeq(s, start, Len(s))>>
  ELSE IF MatchAt(s, d, i)
       THEN <<SubSeq(s, start, i - 1)>>
            \o SplitFrom(s, d, i + Len(d), i + Len(d))
       ELSE SplitFrom(s, d, i + 1, start)

Split(s, d) == SplitFrom(s, d, 1, 1)

\* Array.prototype.filter(Boolean) on strings: the empty string is falsy.
FilterBoolean(ss) == SelectSeq(ss, LAMBDA c : c # <<>>)

escapeMap(c) ==
  CASE c = "&" -> <<"&", "a", "m", "p", ";">>
    [] c = "<" -> <<"&", "l", "t", ";">>
    [] c = ">" -> <<"&", "g", "t", ";">>
    [] c = "\"" -> <<"&", "q", "u", "o", "t", ";">>
    [] c = "'" -> <<"&", "#", "3", "9", ";">>
    [] OTHER -> <<c>>

RECURSIVE escapeHTML(_)
escapeHTML(html) ==
  IF html = <<>> THEN <<>> ELSE escapeMap(Head(html)) \o escapeHTML(Tail(html))

-----------------------------------------------------------------------------
(* Handler table construction *)

\* Object.getOwnPropertyNames(Renderer.prototype)
Props ==
  {"constructor", "space", "code", "blockquote", "html", "heading", "hr",
   "list", "listitem", "checkbox", "paragraph", "table", "tablerow",
   "tablecell", "strong", "em", "codespan", "br", "del", "link", "image",
   "text"}

mdIgnores == {"constructor", "hr", "checkbox", "br", "space"}
mdInlines == {"strong", "em", "codespan", "del", "text"}
mdEscapes == {"html", "code", "codespan"}

Default(fn) == [by |-> "plaintify", fn |-> fn]
Custom(k) == [by |-> "caller", fn |-> k]

\* The if/else-if chain of the forEach callback: the handler installed for prop.
\* The first if (prop === 'space') installs a handler that the chain then
\* overwrites, 'space' being in mdIgnores.
Classify(prop) ==
  IF prop \in mdIgnores THEN Default("ignore")
  ELSE IF prop \in mdInlines THEN Default("inline")
  ELSE IF prop \in mdEscapes THEN Default("escape")
  ELSE IF prop = "list" THEN Default("list")
  ELSE IF prop = "listitem" THEN Default("listitem")
  ELSE IF prop = "table" THEN Default("table")
  ELSE IF prop = "tablerow" THEN Default("tablerow")
  ELSE IF prop = "tablecell" THEN Default("tablecell")
  ELSE IF prop = "link" \/ prop = "image" THEN Default("linkOrImage")
  ELSE IF prop = "paragraph" THEN Default("paragraph")
  ELSE Default("block")

plainTextRenderer == [prop \in Props |-> Classify(prop)]

\* Spread with the operands in the other order, { ...b, ...a }: a's entries win.
SpreadDefaultsLast(a, b) ==
  [k \in DOMAIN a \cup DOMAIN b |-> IF k \in DOMAIN a THEN a[k] ELSE b[k]]

\* { ...a, ...b }
Spread(a, b) ==
  [k \in DOMAIN a \cup DOMAIN b |-> IF k \in DOMAIN b THEN b[k] ELSE a[k]]

\* The renderer of the extension markedPlaintify returns.
Renderer(opts) == Spread(plainTextRenderer, opts)

\* options = {}
NoOptions == [k \in {} |-> Custom(k)]

\* The kinds a caller overrides here; "footnote" is a third-party kind.
OverrideKinds ==
  {"paragraph", "table", "list", "text", "hr", "heading", "footnote"}

AllOptions == UNION {[S -> {"caller"}] : S \in SUBSET OverrideKinds}

OptionsOf(f) == [k \in DOMAIN f |-> Custom(k)]

-----------------------------------------------------------------------------
(* Tokens, as marked's lexer shapes them *)

Alphabet == <<"H", "K", "J", "L", "M", "N">>

TextTok(s) == [type |-> "text", raw |-> s, text |-> s]

StrongTok(s) ==
  [type |-> "strong", raw |-> <<"*", "*">> \o s \o <<"*", "*">>, text |-> s,
   tokens |-> <<TextTok(s)>>]

LinkTok(s) ==
  [type |-> "link", raw |-> <<"[">> \o s \o <<"]", "(", "u", ")">>,
   href |-> <<"u">>, text |-> s, tokens |-> <<TextTok(s)>>]

RECURSIVE RawOf(_)
RawOf(tokens) ==
  IF tokens = <<>> THEN <<>> ELSE Head(tokens).raw \o RawOf(Tail(tokens))

ParagraphTok(children) ==
  [type |-> "paragraph", raw |-> RawOf(children) \o NL,
   text |-> RawOf(children), tokens |-> children]

Inlines ==
  {TextTok(<<"a">>), TextTok(<<"b">>), StrongTok(<<"a">>), LinkTok(<<"c">>)}

SeqsUpTo(S, lo, hi) == UNION {[1..n -> S] : n \in lo..hi}

Paragraphs == {ParagraphTok(c) : c \in SeqsUpTo(Inlines, 1, MaxInline)}

\* A table cell: { text, tokens, header }.
Cell(tokens, isHeader) ==
  [text |-> RawOf(tokens), tokens |-> tokens, header |-> isHeader]

HeaderRow(n) == [i \in 1..n |-> Cell(<<TextTok(<<Alphabet[i]>>)>>, TRUE)]

\* A value that ends with the first ten characters of the cell delimiter.
Tricky == <<"x">> \o SubSeq(CELL_PAD, 1, 10)

InnerTable ==
  [type |-> "table",
   header |-> <<Cell(<<TextTok(<<"I">>)>>, TRUE)>>,
   rows |-> <<<<Cell(<<TextTok(<<"y">>)>>, FALSE)>>>>]

TableRaw == <<"|">>

NestedCell ==
  [text |-> TableRaw, tokens |-> <<InnerTable>>, header |-> FALSE]

PlainCell == Cell(<<TextTok(<<"a">>)>>, FALSE)

BodyCells == {PlainCell, Cell(<<>>, FALSE), Cell(<<TextTok(Tricky)>>, FALSE)}

Rows == SeqsUpTo(BodyCells, 0, MaxCols)

\* Tables whose cells hold text only.
FlatTables ==
  {[type |-> "table", header |-> HeaderRow(n), rows |-> rs] :
     n \in 1..MaxCols, rs \in SeqsUpTo(Rows, 0, MaxRows)}

\* Tables with a complete table inside the cell at column k of the first row,
\* followed by m rows of text cells.
NestedTables ==
  {[type |-> "table", header |-> HeaderRow(n),
    rows |-> <<[i \in 1..n |-> IF i = k THEN NestedCell ELSE PlainCell]>>
             \o [j \in 1..m |-> [i \in 1..n |-> PlainCell]]] :
     n \in 1..MaxCols, k \in 1..MaxCols, m \in 0..MaxRows}

Tables == FlatTables \cup NestedTables

\* Table tokens that lack a field.
MalformedTables ==
  {[type |-> "table", rows |-> <<<<Cell(<<TextTok(<<"a">>)>>, FALSE)>>>>],
   [type |-> "table", header |-> HeaderRow(1)],
   [type |-> "table"]}

BlockText(s) ==
  [type |-> "text", raw |-> s, text |-> s, tokens |-> <<TextTok(s)>>]

ListItemTok(children) ==
  [type |-> "list_item", text |-> RawOf(children), tokens |-> children]

ItemChildren ==
  {<<BlockText(<<"o">>)>>, <<ParagraphTok(<<TextTok(<<"t">>)>>)>>,
   <<BlockText(<<" ", "p">>), ParagraphTok(<<StrongTok(<<"a">>)>>)>>, <<>>}

Lists ==
  {[type |-> "list", ordered |-> FALSE, items |-> its] :
     its \in SeqsUpTo({ListItemTok(c) : c \in ItemChildren}, 1, MaxItems)}

OtherBlocks ==
  {[type |-> "space", raw |-> NLNL],
   [type |-> "hr", raw |-> <<"-", "-", "-">>],
   [type |-> "heading", depth |-> 1, text |-> <<"T">>,
    tokens |-> <<TextTok(<<"T">>)>>],
   [type |-> "heading", depth |-> 1, text |-> <<>>, tokens |-> <<>>],
   [type |-> "code", text |-> <<"<", "a", ">", "&">>],
   [type |-> "html", text |-> <<"<", "b", ">">>],
   [type |-> "blockquote", text |-> <<"q">>,
    tokens |-> <<ParagraphTok(<<TextTok(<<"q">>)>>)>>],
   [type |-> "blockquote", text |-> TableRaw, tokens |-> <<InnerTable>>]}

-----------------------------------------------------------------------------
(* Handlers.  A handler takes a token and the state st = [hdr, trace] it runs *)
(* in and gives [err, text, st]: what it throws or returns, and the state it  *)
(* leaves.  hdr is currentTableHeader; trace logs, for each tablerow call of  *)
(* a table handler, the table's header cells and the header list at the call. *)

Ok(text, st) == [err |-> "none", text |-> text, st |-> st]
Throw(e, st) == [err |-> e, text |-> <<>>, st |-> st]

\* token.text ?? ''
TextOr(token) == IF "text" \in DOMAIN token THEN token.text ELSE <<>>

\* token.tokens && token.tokens.length > 0
HasTokens(token) == "tokens" \in DOMAIN token /\ Len(token.tokens) > 0

\* The renderer's key for a token type.
KeyOf(type) == IF type = "list_item" THEN "listitem" ELSE type

RECURSIVE RenderTokens(_, _, _), Apply(_, _, _), tablecell(_, _),
          HeaderLoop(_, _, _), CellLoop(_, _, _, _), RowLoop(_, _, _, _),
          table(_, _), listitem(_, _), ItemLoop(_, _, _, _), list(_, _)

\* The child-recursion dispatcher: each token goes to the handler installed for
\* its kind, and the results are concatenated.
RenderTokens(tokens, i, st) ==
  IF i > Len(tokens) THEN Ok(<<>>, st)
  ELSE LET r == Apply(renderer[KeyOf(tokens[i].type)], tokens[i], st) IN
       IF r.err # "none" THEN r
       ELSE LET rest == RenderTokens(tokens, i + 1, r.st) IN
            IF rest.err # "none" THEN rest
            ELSE Ok(r.text \o rest.text, rest.st)

parseTokens(tokens, st) == RenderTokens(tokens, 1, st)
parseInline(tokens, st) == RenderTokens(tokens, 1, st)
parse(tokens, st) == RenderTokens(tokens, 1, st)

\* tablecell without the test of token.header: every cell is pushed.
tablecellPushAll(token, st) ==
  LET r == parseInline(token.tokens, st) IN
  IF r.err # "none" THEN r
  ELSE Ok(r.text \o CELL_PAD, [r.st EXCEPT !.hdr = Append(@, r.text)])

\* tablecell: the cell's inline rendering, pushed on the header list when the
\* cell is a header cell, and returned with the cell delimiter after it.
tablecell(token, st) ==
  LET r == parseInline(token.tokens, st) IN
  IF r.err # "none" THEN r
  ELSE Ok(r.text \o CELL_PAD,
          [r.st EXCEPT !.hdr = IF token.header THEN Append(@, r.text) ELSE @])

\* tablerow: one "title: chunk" line for each title of the header list.
tablerow(token, st) ==
  LET chunks == FilterBoolean(Split(token.text, CELL_PAD))
      lines == [i \in 1..Len(st.hdr) |->
                  st.hdr[i] \o ColonSpace
                  \o (IF i <= Len(chunks) THEN chunks[i] ELSE Undefined)]
  IN Ok(Join(lines, NL) \o NLNL, st)

\* for (j ...) tablecell(token.header[j])
HeaderLoop(header, j, st) ==
  IF j > Len(header) THEN Ok(<<>>, st)
  ELSE LET r == tablecell(header[j], st) IN
       IF r.err # "none" THEN r ELSE HeaderLoop(header, j + 1, r.st)

\* for (k ...) cell += tablecell(row[k])
CellLoop(row, k, cell, st) ==
  IF k > Len(row) THEN Ok(cell, st)
  ELSE LET r == tablecell(row[k], st) IN
       IF r.err # "none" THEN r
       ELSE CellLoop(row, k + 1, cell \o r.text, r.st)

\* for (j ...) { ...; body += tablerow({ text: cell }) }
RowLoop(token, j, body, st) ==
  IF j > Len(token.rows) THEN Ok(body, st)
  ELSE LET c == CellLoop(token.rows[j], 1, <<>>, st) IN
       IF c.err # "none" THEN c
       ELSE LET at == [c.st EXCEPT !.trace =
                         Append(@, [owner |-> token.header, hdr |-> c.st.hdr])]
                r == tablerow([text |-> c.text], at)
            IN RowLoop(token, j + 1, body \o r.text, r.st)

\* The table handler after currentTableHeader = []: reading .length of a field
\* the token lacks throws a TypeError.
TableBody(token, st) ==
  IF "header" \notin DOMAIN token THEN Throw("TypeError", st)
  ELSE LET h == HeaderLoop(token.header, 1, st) IN
       IF h.err # "none" THEN h
       ELSE IF "rows" \notin DOMAIN token THEN Throw("TypeError", h.st)
       ELSE RowLoop(token, 1, <<>>, h.st)

\* The table handler without currentTableHeader = [].
tableNoReset(token, st) == TableBody(token, st)

\* plainTextRenderer.table
table(token, st) == TableBody(token, [st EXCEPT !.hdr = <<>>])

\* listitem
listitem(token, st) ==
  LET r == parse(token.tokens, st) IN
  IF r.err # "none" THEN r ELSE Ok(NL \o Trim(r.text), r.st)

\* for (j ...) body += listitem(token.items[j])
ItemLoop(items, j, body, st) ==
  IF j > Len(items) THEN Ok(body, st)
  ELSE LET r == listitem(items[j], st) IN
       IF r.err # "none" THEN r
       ELSE ItemLoop(items, j + 1, body \o r.text, r.st)

\* The list handler without the trim of the concatenated items.
listNoTrim(token, st) ==
  IF "items" \notin DOMAIN token THEN Throw("TypeError", st)
  ELSE LET r == ItemLoop(token.items, 1, <<>>, st) IN
       IF r.err # "none" THEN r ELSE Ok(NL \o r.text \o NLNL, r.st)

\* plainTextRenderer.list
list(token, st) ==
  IF "items" \notin DOMAIN token THEN Throw("TypeError", st)
  ELSE LET r == ItemLoop(token.items, 1, <<>>, st) IN
       IF r.err # "none" THEN r ELSE Ok(NL \o Trim(r.text) \o NLNL, r.st)

\* linkOrImage: the node's visible text and two newlines.
linkOrImage(token, st) == Ok(TextOr(token) \o NLNL, st)

\* plainTextRenderer.paragraph
paragraph(token, st) ==
  IF "tokens" \notin DOMAIN token THEN Throw("TypeError", st)
  ELSE IF /\ Len(token.tokens) > 0
          /\ token.tokens[1].type \in {"link", "image"}
       THEN linkOrImage(token.tokens[1], st)
       ELSE Ok(TextOr(token) \o NLNL, st)

\* The handler of the mdInlines kinds.
inline(token, st) ==
  IF HasTokens(token) THEN parseTokens(token.tokens, st)
  ELSE Ok(TextOr(token), st)

\* The handler of the mdEscapes kinds.
escaped(token, st) == Ok(escapeHTML(token.text) \o NLNL, st)

\* The handler of every other kind.
block(token, st) ==
  IF HasTokens(token)
  THEN LET r == parseTokens(token.tokens, st) IN
       IF r.err # "none" THEN r ELSE Ok(r.text \o NLNL, r.st)
  ELSE Ok(TextOr(token) \o NLNL, st)

\* What a caller's own handler returns.
CustomText == <<"#">>

\* A call of the installed handler h.
Apply(h, token, st) ==
  IF h.by = "caller" THEN Ok(CustomText, st)
  ELSE CASE h.fn = "ignore" -> Ok(<<>>, st)
         [] h.fn = "inline" -> inline(token, st)
         [] h.fn = "escape" -> escaped(token, st)
         [] h.fn = "list" -> list(token, st)
         [] h.fn = "listitem" -> listitem(token, st)
         [] h.fn = "table" -> table(token, st)
         [] h.fn = "tablerow" -> tablerow(token, st)
         [] h.fn = "tablecell" -> tablecell(token, st)
         [] h.fn = "linkOrImage" -> linkOrImage(token, st)
         [] h.fn = "paragraph" -> paragraph(token, st)
         [] h.fn = "block" -> block(token, st)

-----------------------------------------------------------------------------
(* The program *)

None == [type |-> "none"]
NoResult == [err |-> "none", text |-> <<>>, called |-> FALSE]
Result(r) == [err |-> r.err, text |-> r.text, called |-> TRUE]

Init ==
  /\ pc = "new"
  /\ options = NoOptions
  /\ renderer = NoOptions
  /\ currentTableHeader = <<>>
  /\ tree = None
  /\ before = <<>>
  /\ first = NoResult
  /\ second = NoResult
  /\ trace = <<>>

\* markedPlaintify(instance, options)
markedPlaintify(opts) ==
  /\ pc = "new"
  /\ pc' = "idle"
  /\ options' = opts
  /\ renderer' = Renderer(opts)
  /\ UNCHANGED <<currentTableHeader, tree, before, first, second, trace>>

\* A render call on the tree t: the parser hands t to the handler of its kind.
Render(t) ==
  LET r == RenderTokens(<<t>>, 1, [hdr |-> currentTableHeader, trace |-> <<>>])
  IN /\ pc = "idle"
     /\ pc' = "rendered"
     /\ tree' = t
     /\ before' = currentTableHeader
     /\ first' = Result(r)
     /\ second' = NoResult
     /\ currentTableHeader' = r.st.hdr
     /\ trace' = r.st.trace
     /\ UNCHANGED <<options, renderer>>

RenderTable == \E t \in Tables \cup MalformedTables : Render(t)
RenderList == \E t \in Lists : Render(t)
RenderParagraph == \E t \in Paragraphs : Render(t)
RenderBlock == \E t \in OtherBlocks : Render(t)

\* A second render call on the same tree.
RenderAgain ==
  LET r == RenderTokens(<<tree>>, 1,
                        [hdr |-> currentTableHeader, trace |-> <<>>])
  IN /\ pc = "rendered"
     /\ pc' = "again"
     /\ second' = Result(r)
     /\ currentTableHeader' = r.st.hdr
     /\ trace' = r.st.trace
     /\ UNCHANGED <<options, renderer, tree, before, first>>

\* The caller is done with the tree; the renderer and its header list remain.
Done ==
  /\ pc \in {"rendered", "again"}
  /\ pc' = "idle"
  /\ tree' = None
  /\ before' = <<>>
  /\ first' = NoResult
  /\ second' = NoResult
  /\ trace' = <<>>
  /\ UNCHANGED <<options, renderer, currentTableHeader>>

Create == markedPlaintify(NoOptions)

Next ==
  \/ Create
  \/ RenderTable
  \/ RenderList
  \/ RenderParagraph
  \/ RenderBlock
  \/ RenderAgain
  \/ Done

Spec == Init /\ [][Next]_vars

\* The extension built with each set of caller options.
CreateWith == \E f \in AllOptions : markedPlaintify(OptionsOf(f))

NextOptions == CreateWith

SpecOptions == Init /\ [][NextOptions]_vars

-----------------------------------------------------------------------------
(* What the properties speak of *)

Min(a, b) == IF a < b THEN a ELSE b

Fresh == [hdr |-> <<>>, trace |-> <<>>]

IsTable(t) == t.type = "table"
WellFormed(t) == "header" \in DOMAIN t /\ "rows" \in DOMAIN t

\* The rendered text of a table cell, and of each cell of a row.
CellText(cell) == parseInline(cell.tokens, Fresh).text
Texts(cells) == [i \in 1..Len(cells) |-> CellText(cells[i])]

HoldsTable(cell) ==
  \E i \in 1..Len(cell.tokens) : cell.tokens[i].type = "table"

\* A complete table lies inside a body cell of the table t.
HasNested(t) ==
  \E j \in 1..Len(t.rows) : \E k \in 1..Len(t.rows[j]) :
    HoldsTable(t.rows[j][k])

Contains(s, d) == \E i \in 1..Len(s) : MatchAt(s, d, i)

NoUnderscore(s) == \A i \in 1..Len(s) : s[i] # "_"

\* "h1: v1\nh2: v2\n...", the first m labels paired with the first m values.
Pairs(labels, values, m) ==
  Join([i \in 1..m |-> labels[i] \o ColonSpace \o values[i]], NL) \o NLNL

\* The rendering of a default-handled table that has finished.
TableRendered ==
  /\ pc = "rendered"
  /\ IsTable(tree)
  /\ WellFormed(tree)
  /\ renderer["table"] = Default("table")

-----------------------------------------------------------------------------
(* Properties *)

\* C1: when a body cell of an outer table holds a complete inner table, every
\* row of the inner table is labelled with the inner table's header labels,
\* every row of the outer table is labelled with the outer table's header
\* labels, and the header list is the outer table's labels once more when the
\* outer table has been rendered.
NestedHeaderIsolation ==
  (TableRendered /\ HasNested(tree)) =>
    /\ \A i \in 1..Len(trace) : trace[i].hdr = Texts(trace[i].owner)
    /\ currentTableHeader = Texts(tree.header)

\* C2: a table whose body rows each have as many cells as the header, every
\* cell text non-empty and free of the cell delimiter, renders to the
\* concatenation, in row order, of "h1: v1\n...hn: vn\n\n"; with no body row
\* it renders to the empty string.  Stated of the tables that hold no inner
\* table, which C1 is about.
TableLinearization ==
  ( /\ TableRendered
    /\ ~HasNested(tree)
    /\ \A j \in 1..Len(tree.rows) :
         /\ Len(tree.rows[j]) = Len(tree.header)
         /\ \A k \in 1..Len(tree.rows[j]) :
              /\ CellText(tree.rows[j][k]) # <<>>
              /\ ~Contains(CellText(tree.rows[j][k]), CELL_PAD) ) =>
    /\ first.err = "none"
    /\ first.text =
         Flatten([j \in 1..Len(tree.rows) |->
                    Pairs(Texts(tree.header), Texts(tree.rows[j]),
                          Len(tree.header))])

\* C3: a body row of k non-empty cells under a header of n labels gives exactly
\* min(k, n) "label: value" lines, label i with cell i; a label with no cell
\* gives no line and cells beyond the header are dropped.  Stated of cell
\* texts without an underscore, which cannot meet the cell delimiter.
RowClampedToHeader ==
  ( /\ TableRendered
    /\ ~HasNested(tree)
    /\ \A j \in 1..Len(tree.rows) : \A k \in 1..Len(tree.rows[j]) :
         /\ CellText(tree.rows[j][k]) # <<>>
         /\ NoUnderscore(CellText(tree.rows[j][k])) ) =>
    /\ first.err = "none"
    /\ first.text =
         Flatten([j \in 1..Len(tree.rows) |->
                    Pairs(Texts(tree.header), Texts(tree.rows[j]),
                          Min(Len(tree.rows[j]), Len(tree.header)))])

\* C4: while the body rows of a table that holds no inner table are rendered,
\* and after them, the header list is exactly the table's rendered header cells
\* in order, whatever list the tables rendered before it left.
HeaderListIsCurrentTable ==
  (TableRendered /\ ~HasNested(tree)) =>
    /\ Len(trace) = Len(tree.rows)
    /\ \A i \in 1..Len(trace) : trace[i].hdr = Texts(tree.header)
    /\ currentTableHeader = Texts(tree.header)

\* C4's case: a table with a body row, rendered after a table that left more
\* labels than this one has header cells.
HeaderListWitness ==
  /\ TableRendered
  /\ ~HasNested(tree)
  /\ Len(tree.rows) >= 1
  /\ Len(tree.rows[1]) >= 1
  /\ Len(before) > Len(tree.header)

\* C5: the second of two render calls in succession on the same tree ends as
\* the first did, with the same string.
RenderRepeatable ==
  pc = "again" => (second.err = first.err /\ second.text = first.text)

\* C5's case: a table rendered twice, the first call having left a header list
\* that is not empty.
RenderRepeatableWitness ==
  /\ pc = "again"
  /\ IsTable(tree)
  /\ WellFormed(tree)
  /\ Len(tree.rows) >= 1
  /\ currentTableHeader # <<>>
  /\ first.err = "none"
  /\ first.text # <<>>
  /\ second.called

\* C6: a paragraph whose first child is neither a link nor an image renders to
\* the inline renderings of its children, concatenated in order, and two
\* newlines.
ParagraphInlinePassthrough ==
  ( /\ pc = "rendered"
    /\ tree.type = "paragraph"
    /\ renderer["paragraph"] = Default("paragraph")
    /\ Len(tree.tokens) >= 1
    /\ tree.tokens[1].type \notin {"link", "image"} ) =>
    /\ first.err = "none"
    /\ first.text =
         Flatten([i \in 1..Len(tree.tokens) |->
                    parseInline(<<tree.tokens[i]>>, Fresh).text]) \o NLNL

\* C7: in the renderer markedPlaintify returns, the handler of every kind the
\* caller's options name is the caller's function, and the handler of every
\* other kind is the default one of the classification.
OverridesWin ==
  pc # "new" =>
    /\ DOMAIN renderer = Props \cup DOMAIN options
    /\ \A k \in DOMAIN options : renderer[k] = options[k]
    /\ \A k \in Props \ DOMAIN options : renderer[k] = Classify(k)

\* C7's case: options that override a kind with a default handler, leave
\* another alone and add a third-party kind.
OverridesWitness ==
  /\ pc = "idle"
  /\ "table" \in DOMAIN options
  /\ "footnote" \in DOMAIN options
  /\ "paragraph" \notin DOMAIN options
  /\ renderer["table"] = Custom("table")
  /\ renderer["paragraph"] = Default("paragraph")

\* C8: rendering a table token that lacks its header or its rows ends in a
\* MalformedNodeError, and returns no string.
MalformedTableFailsFast ==
  ( /\ pc = "rendered"
    /\ IsTable(tree)
    /\ ~WellFormed(tree)
    /\ renderer["table"] = Default("table") ) =>
    /\ first.err = "MalformedNodeError"
    /\ first.text = <<>>

\* The trimmed block rendering of a list item's children.
ItemText(item) == Trim(parse(item.tokens, Fresh).text)

\* C9: a list of n >= 1 items whose block renderings trim to the non-empty
\* texts t1..tn renders to "\n" t1 "\n" t2 ... "\n" tn "\n\n", and listitem
\* gives "\n" and the trimmed block rendering of the item's children.
ListShape ==
  ( /\ pc = "rendered"
    /\ tree.type = "list"
    /\ renderer["list"] = Default("list") ) =>
    /\ \A i \in 1..Len(tree.items) :
         listitem(tree.items[i], Fresh).text = NL \o ItemText(tree.items[i])
    /\ (\A i \in 1..Len(tree.items) : ItemText(tree.items[i]) # <<>>) =>
         /\ first.err = "none"
         /\ first.text =
              NL \o Join([i \in 1..Len(tree.items) |->
                            ItemText(tree.items[i])], NL) \o NLNL

\* C9's case: a list of two or more items, none empty, one of them a paragraph
\* whose rendering ends in newlines that the trim removes.
ListShapeWitness ==
  /\ pc = "rendered"
  /\ tree.type = "list"
  /\ Len(tree.items) >= 2
  /\ \A i \in 1..Len(tree.items) : ItemText(tree.items[i]) # <<>>
  /\ \E i \in 1..Len(tree.items) :
       parse(tree.items[i].tokens, Fresh).text # ItemText(tree.items[i])
  /\ tree.items[1] # tree.items[2]

\* C10: in a body row with as many cells as the header, the value after header
\* label i is the text of the row's cell i, also when cells of the row are
\* empty.  Stated of cell texts without an underscore, which cannot meet the
\* cell delimiter.
ColumnAlignment ==
  ( /\ TableRendered
    /\ ~HasNested(tree)
    /\ \A j \in 1..Len(tree.rows) :
         /\ Len(tree.rows[j]) = Len(tree.header)
         /\ \A k \in 1..Len(tree.rows[j]) :
              NoUnderscore(CellText(tree.rows[j][k])) ) =>
    /\ first.err = "none"
    /\ first.text =
         Flatten([j \in 1..Len(tree.rows) |->
                    Pairs(Texts(tree.header), Texts(tree.rows[j]),
                          Len(tree.header))])

====
